---- MODULE Spec2Model ----
(***************************************************************************)
(* Model of the architecture feature detection pass of                     *)
(* common/feat_detect.c: the per-feature wrappers read_feat_xxx(), the     *)
(* range check check_feature() and the orchestrator                        *)
(* detect_arch_features(); and of remove_spintable_memreserve(),            *)
(* bl31_early_platform_setup2(), plat_get_ns_image_entrypoint() and         *)
(* bl31_plat_get_next_image_ep_info() of plat/rpi/rpi4/rpi4_bl31_setup.c.   *)
(*                                                                          *)
(* The functions of the file are operators on a session record             *)
(*   [tainted, status, log, probed]                                         *)
(* and one step of the model is one statement of detect_arch_features():   *)
(* the reset of tainted, one call of a wrapper or of check_feature(), or    *)
(* the final test of tainted.  panic() does not return: a pass that panics  *)
(* stays at the call that panicked.                                         *)
(***************************************************************************)
EXTENDS Integers, Sequences, FiniteSets, TLC

(***************************************************************************)
(* Bounds of the model.                                                     *)
(***************************************************************************)
\* largest value an ID register field takes
MaxField == 3
\* number of features whose build flags and hardware values are drawn
\* freely, every other feature being Disabled on hardware that lacks it
MaxActive == 1
\* number of features that are configured to fail their check, every other
\* feature being Disabled on hardware that lacks it
MaxFaults == 2
\* number of entries in the /memreserve/ block of the device tree
MaxRsv == 3
\* number of calls of bl31_plat_get_next_image_ep_info()
MaxQueries == 2

(***************************************************************************)
(* Feature states.                                                          *)
(***************************************************************************)
FEAT_STATE_DISABLED == 0
FEAT_STATE_ALWAYS == 1
FEAT_STATE_CHECK == 2

FeatStates == {FEAT_STATE_DISABLED, FEAT_STATE_ALWAYS, FEAT_STATE_CHECK}

(***************************************************************************)
(* ID field encodings the wrappers compare against; their values are set   *)
(* in arch.h.                                                               *)
(***************************************************************************)
ID_AA64MMFR2_EL1_NV2_SUPPORTED == 2
MTE_UNIMPLEMENTED == 0
ID_AA64MMFR0_EL1_ECV_SUPPORTED == 1
ID_AA64MMFR0_EL1_ECV_SELF_SYNCH == 2
ID_AA64PFR0_FEAT_RME_NOT_SUPPORTED == 0

(***************************************************************************)
(* The calls of detect_arch_features() in program order, each named by the *)
(* feature it checks.                                                       *)
(***************************************************************************)
Registry ==
    << "SB", "CSV2_2",
       "PAN", "VHE",
       "RAS",
       "PAUTH",
       "DIT", "AMUv1", "MPAM", "NV2", "SEL2", "TRF",
       "MTE", "RNG", "BTI", "RNG_TRAP",
       "AMUv1p1", "FGT", "ECV", "TWED",
       "HCX",
       "BRBE", "TRBE",
       "RME" >>

NumEntries == Len(Registry)

\* the architecture versions that head the groups of calls, and the calls
\* under each heading
ArchVersions ==
    << "v8.0", "v8.1", "v8.2", "v8.3", "v8.4", "v8.5", "v8.6", "v8.7",
       "v9.0", "v9.2" >>

Groups ==
    << {"SB", "CSV2_2"},
       {"PAN", "VHE"},
       {"RAS"},
       {"PAUTH"},
       {"DIT", "AMUv1", "MPAM", "NV2", "SEL2", "TRF"},
       {"MTE", "RNG", "BTI", "RNG_TRAP"},
       {"AMUv1p1", "FGT", "ECV", "TWED"},
       {"HCX"},
       {"BRBE", "TRBE"},
       {"RME"} >>

Features == {Registry[i] : i \in 1..NumEntries}

\* the position of the call that checks feature f
PosOf == [f \in Features |-> CHOOSE i \in 1..NumEntries : Registry[i] = f]

Pos(f) == PosOf[f]

\* the index in ArchVersions of the heading feature f is checked under
GroupOf == [f \in Features |-> CHOOSE i \in 1..Len(Groups) : f \in Groups[i]]

\* features checked by a call of check_feature(): their ID field is range
\* checked
Versioned == {"AMUv1", "TRF", "FGT", "HCX", "BRBE", "TRBE"}

\* features checked by a read_feat_xxx() wrapper, with feat_detect_panic()
Boolean == Features \ Versioned

\* the <min> and <max> arguments of the calls of check_feature()
MinOf(f) == 1

MaxOf(f) == IF f \in {"AMUv1", "BRBE"} THEN 2 ELSE 1

\* features whose hardware value is an ID field: the range checked ones and
\* those whose wrapper compares a field itself
FieldProbed == Versioned \cup {"MPAM", "NV2", "MTE", "ECV", "RME"}

\* features whose wrapper calls a probe that returns bool
BoolProbed == Features \ FieldProbed

(***************************************************************************)
(* The build flags that govern each feature.                                *)
(***************************************************************************)
FlagTable ==
    [f \in Features |->
    CASE f = "SB" -> {"ENABLE_FEAT_SB"}
      [] f = "CSV2_2" -> {"ENABLE_FEAT_CSV2_2"}
      [] f = "PAN" -> {"ENABLE_FEAT_PAN"}
      [] f = "VHE" -> {"ENABLE_FEAT_VHE"}
      [] f = "RAS" -> {"RAS_EXTENSION"}
      [] f = "PAUTH" -> {"ENABLE_PAUTH", "CTX_INCLUDE_PAUTH_REGS"}
      [] f = "DIT" -> {"ENABLE_FEAT_DIT"}
      [] f = "AMUv1" -> {"ENABLE_FEAT_AMUv1"}
      [] f = "MPAM" -> {"ENABLE_MPAM_FOR_LOWER_ELS"}
      [] f = "NV2" -> {"CTX_INCLUDE_NEVE_REGS"}
      [] f = "SEL2" -> {"ENABLE_FEAT_SEL2"}
      [] f = "TRF" -> {"ENABLE_TRF_FOR_NS"}
      [] f = "MTE" -> {"CTX_INCLUDE_MTE_REGS"}
      [] f = "RNG" -> {"ENABLE_FEAT_RNG"}
      [] f = "BTI" -> {"ENABLE_BTI"}
      [] f = "RNG_TRAP" -> {"ENABLE_FEAT_RNG_TRAP"}
      [] f = "AMUv1p1" -> {"ENABLE_FEAT_AMUv1p1"}
      [] f = "FGT" -> {"ENABLE_FEAT_FGT"}
      [] f = "ECV" -> {"ENABLE_FEAT_ECV"}
      [] f = "TWED" -> {"ENABLE_FEAT_TWED"}
      [] f = "HCX" -> {"ENABLE_FEAT_HCX"}
      [] f = "BRBE" -> {"ENABLE_BRBE_FOR_NS"}
      [] f = "TRBE" -> {"ENABLE_TRBE_FOR_NS"}
      [] f = "RME" -> {"ENABLE_RME"}]

FlagsOf(f) == FlagTable[f]

Flags == UNION {FlagsOf(f) : f \in Features}

(***************************************************************************)
(* State.                                                                   *)
(*   cfg      build configuration: the value of every build flag            *)
(*   hw       what the hardware reports for every feature: a bool for a     *)
(*            probe that returns bool, an ID field value otherwise          *)
(*   tainted  the static flag of feat_detect.c                              *)
(*   status   "Idle" before the call of detect_arch_features(), "Running"   *)
(*            inside it, "Returned" after its return, "Terminated" after    *)
(*            panic()                                                       *)
(*   pc       index in Registry of the next call; NumEntries + 1 is the     *)
(*            final test of tainted                                         *)
(*   log      the ERROR lines printed so far                                *)
(*   probed   the features whose hardware probe was called so far           *)
(*   checked  the calls detect_arch_features() made so far                  *)
(*   first    the outcome of an earlier pass over the same build and        *)
(*            hardware, NoPass when there was none                          *)
(***************************************************************************)
VARIABLES cfg, hw, tainted, status, pc, log, probed, checked, first

(***************************************************************************)
(* State of remove_spintable_memreserve().                                  *)
(*   dtb       the entries of the /memreserve/ block of the device tree,    *)
(*             each an address and a size                                   *)
(*   dtb_in    the block as it was when the function was called             *)
(*   regions   the local of that name: what fdt_num_mem_rsv() returned      *)
(*   rsv_i     the loop index i                                             *)
(*   rsv_pc    "Off" when the function is not called, "Idle" before the     *)
(*             call, "Loop" at the loop test, "Done" after the return       *)
(*   warnings  the sizes printed by WARN()                                  *)
(***************************************************************************)
VARIABLES dtb, dtb_in, regions, rsv_i, rsv_pc, warnings

(***************************************************************************)
(* State of the entry point records of rpi4_bl31_setup.c.                   *)
(*   stub_magic, kernel_entry32                                             *)
(*             the words of armstub8.bin of those names, as the GPU         *)
(*             firmware left them                                           *)
(*   preloaded_bl33                                                         *)
(*             the build option PRELOADED_BL33_BASE: whether it is          *)
(*             defined, and its value                                       *)
(*   bl32_image_ep_info, bl33_image_ep_info                                 *)
(*             the statics of those names: the entry point pc and the       *)
(*             security state of the attributes                             *)
(*   ep_pc     "Off" when the functions are not called, "Reset" before      *)
(*             bl31_early_platform_setup2(), "SetUp" after it               *)
(*   ep_rets   the calls of bl31_plat_get_next_image_ep_info() so far:      *)
(*             the type asked for, whether the setup had run, and the       *)
(*             pointer returned                                             *)
(*   ep_warn   the WARN() lines of plat_get_ns_image_entrypoint()           *)
(***************************************************************************)
VARIABLES stub_magic, kernel_entry32, preloaded_bl33, bl32_image_ep_info,
          bl33_image_ep_info, ep_pc, ep_rets, ep_warn

epVars == <<stub_magic, kernel_entry32, preloaded_bl33, bl32_image_ep_info,
            bl33_image_ep_info, ep_pc, ep_rets, ep_warn>>

SECURE == 0
NON_SECURE == 1

\* a static entry_point_info_t before anything is stored in it
ZeroEpInfo == [pc |-> 0, sec |-> 0]

\* the entry point functions are not called
EpOff ==
    /\ stub_magic = 0
    /\ kernel_entry32 = 0
    /\ preloaded_bl33 = [defined |-> FALSE, base |-> 0]
    /\ bl32_image_ep_info = ZeroEpInfo
    /\ bl33_image_ep_info = ZeroEpInfo
    /\ ep_pc = "Off"
    /\ ep_rets = <<>>
    /\ ep_warn = <<>>

rpiVars == <<dtb, dtb_in, regions, rsv_i, rsv_pc, warnings, epVars>>

vars == <<cfg, hw, tainted, status, pc, log, probed, checked, first, rpiVars>>

\* remove_spintable_memreserve() is not called
RpiOff ==
    /\ dtb = <<>>
    /\ dtb_in = <<>>
    /\ regions = 0
    /\ rsv_i = 0
    /\ rsv_pc = "Off"
    /\ warnings = <<>>
    /\ EpOff

NoPass == [status |-> "None", log |-> <<>>, checked |-> <<>>]

(***************************************************************************)
(* Build configurations and hardware of the model.                          *)
(***************************************************************************)
\* sets of at most k features
RECURSIVE FeatureSets(_)
FeatureSets(k) ==
    IF k = 0 THEN {{}}
    ELSE LET P == FeatureSets(k - 1)
         IN  P \cup {s \cup {f} : s \in P, f \in Features}

\* hardware on which no feature is implemented
HwAbsent == [f \in Features |-> IF f \in BoolProbed THEN FALSE ELSE 0]

\* every flag Disabled
AllDisabled == [fl \in Flags |-> FEAT_STATE_DISABLED]

\* the features of S take any build flags and any hardware value
InitFree ==
    \E S \in FeatureSets(MaxActive) :
        /\ \E c \in [UNION {FlagsOf(f) : f \in S} -> FeatStates] :
             cfg = [fl \in Flags |->
                       IF fl \in DOMAIN c THEN c[fl] ELSE AllDisabled[fl]]
        /\ \E hb \in [S \cap BoolProbed -> BOOLEAN],
              hf \in [S \cap FieldProbed -> 0..MaxField] :
             hw = [f \in Features |->
                       IF f \in DOMAIN hb THEN hb[f]
                       ELSE IF f \in DOMAIN hf THEN hf[f]
                       ELSE HwAbsent[f]]

\* the features of S fail their check: a boolean one is Always and absent,
\* a versioned one is Always and below its minimum, or Always or Check and
\* above its maximum; a failing PAUTH has ENABLE_PAUTH Always
InitFaults ==
    \E S \in FeatureSets(MaxFaults) :
        \E k \in [S \cap Versioned -> {"below", "above", "check_above"}] :
            /\ cfg = [fl \in Flags |->
                        IF \E f \in S : fl \in FlagsOf(f) /\ fl # "CTX_INCLUDE_PAUTH_REGS"
                        THEN LET g == CHOOSE h \in S : fl \in FlagsOf(h)
                             IN  IF g \in Versioned /\ k[g] = "check_above"
                                 THEN FEAT_STATE_CHECK
                                 ELSE FEAT_STATE_ALWAYS
                        ELSE AllDisabled[fl]]
            /\ hw = [f \in Features |->
                        IF f \in S \cap Versioned /\ k[f] # "below"
                        THEN MaxOf(f) + 1
                        ELSE HwAbsent[f]]

\* at most one boolean feature is Always and absent, and the versioned
\* features of S fail a range rule, as in InitFaults
InitAbort ==
    \E B \in {W \in FeatureSets(1) : W \subseteq Boolean} :
        \E S \in {V \in FeatureSets(MaxFaults) : V \subseteq Versioned} :
            \E k \in [S -> {"below", "above", "check_above"}] :
                /\ cfg = [fl \in Flags |->
                            IF /\ \E b \in B : fl \in FlagsOf(b)
                               /\ fl # "CTX_INCLUDE_PAUTH_REGS"
                            THEN FEAT_STATE_ALWAYS
                            ELSE IF \E f \in S : fl \in FlagsOf(f)
                            THEN LET g == CHOOSE h \in S : fl \in FlagsOf(h)
                                 IN  IF k[g] = "check_above"
                                     THEN FEAT_STATE_CHECK
                                     ELSE FEAT_STATE_ALWAYS
                            ELSE AllDisabled[fl]]
                /\ hw = [f \in Features |->
                            IF f \in S /\ k[f] # "below"
                            THEN MaxOf(f) + 1
                            ELSE HwAbsent[f]]

Init ==
    /\ InitFree \/ InitFaults
    /\ tainted = FALSE
    /\ status = "Idle"
    /\ pc = 0
    /\ log = <<>>
    /\ probed = <<>>
    /\ checked = <<>>
    /\ first = NoPass
    /\ RpiOff

(***************************************************************************)
(* The session record the functions of feat_detect.c work on.               *)
(***************************************************************************)
Cur == [tainted |-> tainted, status |-> status, log |-> log, probed |-> probed]

\* ERROR(): one line of the error log
ERROR(s, feat_name, what) ==
    [s EXCEPT !.log = Append(@, [feat |-> feat_name, kind |-> what])]

\* panic() does not return
panic(s) == [s EXCEPT !.status = "Terminated"]

\* a call of the hardware probe of feature f
Probed(s, f) == [s EXCEPT !.probed = Append(@, f)]

\* faulty variant: the diagnostic is printed but panic() is not called
feature_panic_no_panic(s, feat_name) == ERROR(s, feat_name, "not_supported")

\* faulty variant: the boolean path records its failure in tainted too
feature_panic_taints(s, feat_name) ==
    panic([ERROR(s, feat_name, "not_supported") EXCEPT !.tainted = TRUE])

feature_panic(s, feat_name) == panic(ERROR(s, feat_name, "not_supported"))

\* faulty variant: in a pass that is tainted already the failure is left to
\* the final test
feat_detect_panic_when_clean(s, a, b) ==
    IF a \/ s.tainted THEN s ELSE feature_panic(s, b)

feat_detect_panic(s, a, b) == IF a THEN s ELSE feature_panic(s, b)

\* faulty variant: a field below <min> panics at once
check_feature_panics(s, state, field, feat_name, min, max) ==
    LET s1 == IF state = FEAT_STATE_ALWAYS /\ field < min
              THEN panic([ERROR(s, feat_name, "not_supported") EXCEPT !.tainted = TRUE])
              ELSE s
    IN  IF state >= FEAT_STATE_ALWAYS /\ field > max
        THEN [ERROR(s1, feat_name, "unknown_version") EXCEPT !.tainted = TRUE]
        ELSE s1

\* faulty variant: the <max> rule is applied to FEAT_STATE_ALWAYS only
check_feature_always_only(s, state, field, feat_name, min, max) ==
    LET s1 == IF state = FEAT_STATE_ALWAYS /\ field < min
              THEN [ERROR(s, feat_name, "not_supported") EXCEPT !.tainted = TRUE]
              ELSE s
    IN  IF state = FEAT_STATE_ALWAYS /\ field > max
        THEN [ERROR(s1, feat_name, "unknown_version") EXCEPT !.tainted = TRUE]
        ELSE s1

\* faulty variant: <max> itself is rejected
check_feature_max_exclusive(s, state, field, feat_name, min, max) ==
    LET s1 == IF state = FEAT_STATE_ALWAYS /\ field < min
              THEN [ERROR(s, feat_name, "not_supported") EXCEPT !.tainted = TRUE]
              ELSE s
    IN  IF state >= FEAT_STATE_ALWAYS /\ field >= max
        THEN [ERROR(s1, feat_name, "unknown_version") EXCEPT !.tainted = TRUE]
        ELSE s1

\* faulty variant: the <min> rule is applied to FEAT_STATE_CHECK too
check_feature_check_below(s, state, field, feat_name, min, max) ==
    LET s1 == IF state >= FEAT_STATE_ALWAYS /\ field < min
              THEN [ERROR(s, feat_name, "not_supported") EXCEPT !.tainted = TRUE]
              ELSE s
    IN  IF state >= FEAT_STATE_ALWAYS /\ field > max
        THEN [ERROR(s1, feat_name, "unknown_version") EXCEPT !.tainted = TRUE]
        ELSE s1

\* faulty variant: the <max> rule is applied whatever the state
check_feature_ignores_state(s, state, field, feat_name, min, max) ==
    LET s1 == IF state = FEAT_STATE_ALWAYS /\ field < min
              THEN [ERROR(s, feat_name, "not_supported") EXCEPT !.tainted = TRUE]
              ELSE s
    IN  IF field > max
        THEN [ERROR(s1, feat_name, "unknown_version") EXCEPT !.tainted = TRUE]
        ELSE s1

\* faulty variant: tainted is assigned the outcome of this check, so a check
\* that passes clears it
check_feature_overwrites(s, state, field, feat_name, min, max) ==
    LET below == state = FEAT_STATE_ALWAYS /\ field < min
        above == state >= FEAT_STATE_ALWAYS /\ field > max
        s1 == IF below THEN ERROR(s, feat_name, "not_supported") ELSE s
        s2 == IF above THEN ERROR(s1, feat_name, "unknown_version") ELSE s1
    IN  [s2 EXCEPT !.tainted = below \/ above]

\* faulty variant: a field above <max> taints the pass without a diagnostic
check_feature_silent_above(s, state, field, feat_name, min, max) ==
    LET s1 == IF state = FEAT_STATE_ALWAYS /\ field < min
              THEN [ERROR(s, feat_name, "not_supported") EXCEPT !.tainted = TRUE]
              ELSE s
    IN  IF state >= FEAT_STATE_ALWAYS /\ field > max
        THEN [s1 EXCEPT !.tainted = TRUE]
        ELSE s1

check_feature(s, state, field, feat_name, min, max) ==
    LET s1 == IF state = FEAT_STATE_ALWAYS /\ field < min
              THEN [ERROR(s, feat_name, "not_supported") EXCEPT !.tainted = TRUE]
              ELSE s
    IN  IF state >= FEAT_STATE_ALWAYS /\ field > max
        THEN [ERROR(s1, feat_name, "unknown_version") EXCEPT !.tainted = TRUE]
        ELSE s1

read_feat_sb(s) ==
    IF cfg["ENABLE_FEAT_SB"] = FEAT_STATE_ALWAYS
    THEN feat_detect_panic(Probed(s, "SB"), hw["SB"], "SB")
    ELSE s

read_feat_csv2_2(s) ==
    IF cfg["ENABLE_FEAT_CSV2_2"] = FEAT_STATE_ALWAYS
    THEN feat_detect_panic(Probed(s, "CSV2_2"), hw["CSV2_2"], "CSV2_2")
    ELSE s

\* faulty variant: FEAT_STATE_CHECK is treated as mandatory too
read_feat_pan_check_too(s) ==
    IF cfg["ENABLE_FEAT_PAN"] >= FEAT_STATE_ALWAYS
    THEN feat_detect_panic(Probed(s, "PAN"), hw["PAN"], "PAN")
    ELSE s

read_feat_pan(s) ==
    IF cfg["ENABLE_FEAT_PAN"] = FEAT_STATE_ALWAYS
    THEN feat_detect_panic(Probed(s, "PAN"), hw["PAN"], "PAN")
    ELSE s

read_feat_vhe(s) ==
    IF cfg["ENABLE_FEAT_VHE"] = FEAT_STATE_ALWAYS
    THEN feat_detect_panic(Probed(s, "VHE"), hw["VHE"], "VHE")
    ELSE s

read_feat_ras(s) ==
    IF cfg["RAS_EXTENSION"] = FEAT_STATE_ALWAYS
    THEN feat_detect_panic(Probed(s, "RAS"), hw["RAS"], "RAS")
    ELSE s

\* faulty variant: only ENABLE_PAUTH makes the feature mandatory
read_feat_pauth_enable_only(s) ==
    IF cfg["ENABLE_PAUTH"] = FEAT_STATE_ALWAYS
    THEN feat_detect_panic(Probed(s, "PAUTH"), hw["PAUTH"], "PAUTH")
    ELSE s

read_feat_pauth(s) ==
    IF \/ cfg["ENABLE_PAUTH"] = FEAT_STATE_ALWAYS
       \/ cfg["CTX_INCLUDE_PAUTH_REGS"] = FEAT_STATE_ALWAYS
    THEN feat_detect_panic(Probed(s, "PAUTH"), hw["PAUTH"], "PAUTH")
    ELSE s

read_feat_dit(s) ==
    IF cfg["ENABLE_FEAT_DIT"] = FEAT_STATE_ALWAYS
    THEN feat_detect_panic(Probed(s, "DIT"), hw["DIT"], "DIT")
    ELSE s

read_feat_mpam(s) ==
    IF cfg["ENABLE_MPAM_FOR_LOWER_ELS"] = FEAT_STATE_ALWAYS
    THEN feat_detect_panic(Probed(s, "MPAM"), hw["MPAM"] # 0, "MPAM")
    ELSE s

read_feat_nv2(s) ==
    IF cfg["CTX_INCLUDE_NEVE_REGS"] = FEAT_STATE_ALWAYS
    THEN LET nv == hw["NV2"]
         IN  feat_detect_panic(Probed(s, "NV2"),
                               nv = ID_AA64MMFR2_EL1_NV2_SUPPORTED, "NV2")
    ELSE s

\* faulty variant: the probe is called outside the #if
read_feat_sel2_probes_first(s) ==
    IF cfg["ENABLE_FEAT_SEL2"] = FEAT_STATE_ALWAYS
    THEN feat_detect_panic(Probed(s, "SEL2"), hw["SEL2"], "SEL2")
    ELSE Probed(s, "SEL2")

read_feat_sel2(s) ==
    IF cfg["ENABLE_FEAT_SEL2"] = FEAT_STATE_ALWAYS
    THEN feat_detect_panic(Probed(s, "SEL2"), hw["SEL2"], "SEL2")
    ELSE s

read_feat_mte(s) ==
    IF cfg["CTX_INCLUDE_MTE_REGS"] = FEAT_STATE_ALWAYS
    THEN LET mte == hw["MTE"]
         IN  feat_detect_panic(Probed(s, "MTE"),
                               mte # MTE_UNIMPLEMENTED, "MTE")
    ELSE s

read_feat_rng(s) ==
    IF cfg["ENABLE_FEAT_RNG"] = FEAT_STATE_ALWAYS
    THEN feat_detect_panic(Probed(s, "RNG"), hw["RNG"], "RNG")
    ELSE s

read_feat_bti(s) ==
    IF cfg["ENABLE_BTI"] = FEAT_STATE_ALWAYS
    THEN feat_detect_panic(Probed(s, "BTI"), hw["BTI"], "BTI")
    ELSE s

read_feat_amuv1p1(s) ==
    IF cfg["ENABLE_FEAT_AMUv1p1"] = FEAT_STATE_ALWAYS
    THEN feat_detect_panic(Probed(s, "AMUv1p1"), hw["AMUv1p1"], "AMUv1p1")
    ELSE s

\* faulty variant: the ECV field is range checked instead
read_feat_ecv_ranged(s) ==
    LET ecv == hw["ECV"]
    IN  IF cfg["ENABLE_FEAT_ECV"] = FEAT_STATE_ALWAYS
           /\ ecv < ID_AA64MMFR0_EL1_ECV_SUPPORTED
        THEN [ERROR(Probed(s, "ECV"), "ECV", "not_supported") EXCEPT !.tainted = TRUE]
        ELSE s

read_feat_ecv(s) ==
    IF cfg["ENABLE_FEAT_ECV"] = FEAT_STATE_ALWAYS
    THEN LET ecv == hw["ECV"]
         IN  feat_detect_panic(Probed(s, "ECV"),
                               \/ ecv = ID_AA64MMFR0_EL1_ECV_SUPPORTED
                               \/ ecv = ID_AA64MMFR0_EL1_ECV_SELF_SYNCH,
                               "ECV")
    ELSE s

read_feat_twed(s) ==
    IF cfg["ENABLE_FEAT_TWED"] = FEAT_STATE_ALWAYS
    THEN feat_detect_panic(Probed(s, "TWED"), hw["TWED"], "TWED")
    ELSE s

read_feat_rme(s) ==
    IF cfg["ENABLE_RME"] = FEAT_STATE_ALWAYS
    THEN feat_detect_panic(Probed(s, "RME"), hw["RME"] # ID_AA64PFR0_FEAT_RME_NOT_SUPPORTED, "RME")
    ELSE s

read_feat_rng_trap(s) ==
    IF cfg["ENABLE_FEAT_RNG_TRAP"] = FEAT_STATE_ALWAYS
    THEN feat_detect_panic(Probed(s, "RNG_TRAP"), hw["RNG_TRAP"], "RNG_TRAP")
    ELSE s

(***************************************************************************)
(* detect_arch_features().                                                  *)
(***************************************************************************)
\* the call of detect_arch_features() that checks feature f; the argument
\* read_feat_xxx_id_field() of a call of check_feature() is evaluated before
\* the call, whatever the flag
Call(f, s) ==
    CASE f = "SB" -> read_feat_sb(s)
      [] f = "CSV2_2" -> read_feat_csv2_2(s)
      [] f = "PAN" -> read_feat_pan(s)
      [] f = "VHE" -> read_feat_vhe(s)
      [] f = "RAS" -> read_feat_ras(s)
      [] f = "PAUTH" -> read_feat_pauth(s)
      [] f = "DIT" -> read_feat_dit(s)
      [] f = "AMUv1" -> check_feature(Probed(s, "AMUv1"), cfg["ENABLE_FEAT_AMUv1"],
                                      hw["AMUv1"], "AMUv1", 1, 2)
      [] f = "MPAM" -> read_feat_mpam(s)
      [] f = "NV2" -> read_feat_nv2(s)
      [] f = "SEL2" -> read_feat_sel2(s)
      [] f = "TRF" -> check_feature(Probed(s, "TRF"), cfg["ENABLE_TRF_FOR_NS"],
                                    hw["TRF"], "TRF", 1, 1)
      [] f = "MTE" -> read_feat_mte(s)
      [] f = "RNG" -> read_feat_rng(s)
      [] f = "BTI" -> read_feat_bti(s)
      [] f = "RNG_TRAP" -> read_feat_rng_trap(s)
      [] f = "AMUv1p1" -> read_feat_amuv1p1(s)
      [] f = "FGT" -> check_feature(Probed(s, "FGT"), cfg["ENABLE_FEAT_FGT"],
                                    hw["FGT"], "FGT", 1, 1)
      [] f = "ECV" -> read_feat_ecv(s)
      [] f = "TWED" -> read_feat_twed(s)
      [] f = "HCX" -> check_feature(Probed(s, "HCX"), cfg["ENABLE_FEAT_HCX"],
                                    hw["HCX"], "HCX", 1, 1)
      [] f = "BRBE" -> check_feature(Probed(s, "BRBE"), cfg["ENABLE_BRBE_FOR_NS"],
                                     hw["BRBE"], "BRBE", 1, 2)
      [] f = "TRBE" -> check_feature(Probed(s, "TRBE"), cfg["ENABLE_TRBE_FOR_NS"],
                                     hw["TRBE"], "TRBE", 1, 1)
      [] f = "RME" -> read_feat_rme(s)

\* faulty variant: tainted is not reset on entry
Enter_keeps_tainted ==
    /\ status = "Idle"
    /\ status' = "Running"
    /\ pc' = 1
    /\ UNCHANGED <<cfg, hw, tainted, log, probed, checked, first, rpiVars>>

\* entry: tainted = false
Enter ==
    /\ status = "Idle"
    /\ tainted' = FALSE
    /\ status' = "Running"
    /\ pc' = 1
    /\ UNCHANGED <<cfg, hw, log, probed, checked, first, rpiVars>>

\* faulty variant: the body goes on after a call that panicked
Step_after_panic ==
    /\ status \in {"Running", "Terminated"}
    /\ pc \in 1..NumEntries
    /\ LET f == Registry[pc]
           r == Call(f, Cur)
       IN  /\ tainted' = r.tainted
           /\ status' = r.status
           /\ log' = r.log
           /\ probed' = r.probed
           /\ pc' = pc + 1
           /\ checked' = Append(checked, f)
    /\ UNCHANGED <<cfg, hw, first, rpiVars>>

\* faulty variant: the call of a Disabled feature is left out
Step_skips_disabled ==
    /\ status = "Running"
    /\ pc \in 1..NumEntries
    /\ LET f == Registry[pc]
           r == Call(f, Cur)
       IN  /\ tainted' = r.tainted
           /\ status' = r.status
           /\ log' = r.log
           /\ probed' = r.probed
           /\ pc' = IF r.status = "Terminated" THEN pc ELSE pc + 1
           /\ checked' = IF \A fl \in FlagsOf(f) : cfg[fl] = FEAT_STATE_DISABLED
                         THEN checked
                         ELSE Append(checked, f)
    /\ UNCHANGED <<cfg, hw, first, rpiVars>>

\* the next call of the body; a call that panics does not return
Step ==
    /\ status = "Running"
    /\ pc \in 1..NumEntries
    /\ LET f == Registry[pc]
           r == Call(f, Cur)
       IN  /\ tainted' = r.tainted
           /\ status' = r.status
           /\ log' = r.log
           /\ probed' = r.probed
           /\ pc' = IF r.status = "Terminated" THEN pc ELSE pc + 1
           /\ checked' = Append(checked, f)
    /\ UNCHANGED <<cfg, hw, first, rpiVars>>

\* faulty variant: the function does not return when tainted is false
Verdict_never_returns ==
    /\ status = "Running"
    /\ pc = NumEntries + 1
    /\ status' = IF tainted THEN panic(Cur).status ELSE "Running"
    /\ UNCHANGED <<cfg, hw, tainted, pc, log, probed, checked, first, rpiVars>>

\* faulty variant: tainted is not tested
Verdict_ignores_taint ==
    /\ status = "Running"
    /\ pc = NumEntries + 1
    /\ status' = "Returned"
    /\ UNCHANGED <<cfg, hw, tainted, pc, log, probed, checked, first, rpiVars>>

\* if (tainted) panic();
Verdict ==
    /\ status = "Running"
    /\ pc = NumEntries + 1
    /\ status' = IF tainted THEN panic(Cur).status ELSE "Returned"
    /\ UNCHANGED <<cfg, hw, tainted, pc, log, probed, checked, first, rpiVars>>

detect_arch_features ==
    \/ Enter
    \/ Step
    \/ Verdict

\* one call of detect_arch_features() after reset
Next == detect_arch_features

Spec == Init /\ [][Next]_vars

\* the passes a boolean check stops, some of them after range checks that
\* failed
InitAbortPass ==
    /\ InitAbort
    /\ tainted = FALSE
    /\ status = "Idle"
    /\ pc = 0
    /\ log = <<>>
    /\ probed = <<>>
    /\ checked = <<>>
    /\ first = NoPass
    /\ RpiOff

SpecAbort == InitAbortPass /\ [][Next]_vars

\* detect_arch_features() is straight-line code that calls nothing that
\* blocks: a statement that can run does run
SpecFair == Init /\ [][Next]_vars /\ WF_vars(Next)

(***************************************************************************)
(* Two calls of detect_arch_features() in a row, over the same build and    *)
(* hardware: the static tainted keeps the value the first call left, the    *)
(* console starts empty, and the outcome of the first call is kept for      *)
(* comparison.  The second call is made whether the first one returned or   *)
(* panicked.                                                                *)
(***************************************************************************)
Again ==
    /\ first = NoPass
    /\ status \in {"Returned", "Terminated"}
    /\ first' = [status |-> status, log |-> log, checked |-> checked]
    /\ status' = "Idle"
    /\ pc' = 0
    /\ log' = <<>>
    /\ probed' = <<>>
    /\ checked' = <<>>
    /\ UNCHANGED <<cfg, hw, tainted, rpiVars>>

NextTwice ==
    \/ detect_arch_features
    \/ Again

SpecTwice == Init /\ [][NextTwice]_vars

TypeOK ==
    /\ tainted \in BOOLEAN
    /\ status \in {"Idle", "Running", "Returned", "Terminated"}
    /\ pc \in 0..(NumEntries + 1)

(***************************************************************************)
(* The body of detect_arch_features() with its calls made in another        *)
(* order: the whole pass as one step, from the reset of tainted to the      *)
(* final test or to the call that panics.                                   *)
(***************************************************************************)
RECURSIVE RunFrom(_, _, _)
RunFrom(o, n, s) ==
    IF n > Len(o)
    THEN IF s.tainted
         THEN panic([s EXCEPT !.pc = n])
         ELSE [s EXCEPT !.pc = n, !.status = "Returned"]
    ELSE LET r == Call(o[n], [s EXCEPT !.pc = n, !.checked = Append(@, o[n])])
         IN  IF r.status = "Terminated" THEN r ELSE RunFrom(o, n + 1, r)

RunPass(o) ==
    RunFrom(o, 1, [tainted |-> FALSE, status |-> "Running", log |-> <<>>,
                   probed |-> <<>>, checked |-> <<>>, pc |-> 1])

Rotate(q, k) == [i \in 1..Len(q) |-> q[((i + k - 1) % Len(q)) + 1]]

Reverse(q) == [i \in 1..Len(q) |-> q[Len(q) + 1 - i]]

\* the orders tried: the program order and its reverse, each started at
\* its first call and at its middle one; any two calls come in both
\* relative orders
Orders ==
    {Rotate(q, k) : q \in {Registry, Reverse(Registry)},
                    k \in {0, NumEntries \div 2}}

\* a pass in one of the orders; first keeps the outcome of the pass in
\* program order over the same build and hardware
PermutedPass ==
    /\ status = "Idle"
    /\ LET ref == RunPass(Registry)
       IN  /\ first' = [status |-> ref.status, log |-> ref.log,
                        checked |-> ref.checked]
           /\ \E o \in Orders :
                LET r == IF o = Registry THEN ref ELSE RunPass(o)
                IN  /\ tainted' = r.tainted
                    /\ status' = r.status
                    /\ log' = r.log
                    /\ probed' = r.probed
                    /\ checked' = r.checked
                    /\ pc' = r.pc
    /\ UNCHANGED <<cfg, hw, rpiVars>>

NextOrder == PermutedPass

SpecOrder == Init /\ [][NextOrder]_vars

(***************************************************************************)
(* remove_spintable_memreserve(): the scan of the /memreserve/ block for    *)
(* the region at address 0.  The block is a list of entries; what libfdt    *)
(* answers is taken as follows: fdt_num_mem_rsv() returns any count up to   *)
(* one more than the entries there are, or an error; fdt_get_mem_rsv()      *)
(* fails for an index past the last entry and returns the entry otherwise;  *)
(* fdt_del_mem_rsv() removes the entry at the index.                        *)
(***************************************************************************)
fdVars == <<cfg, hw, tainted, status, pc, log, probed, checked, first>>

\* addresses and sizes of the entries of the model: address 0 and another,
\* no size, 4K and another size
RsvEntries == [addr : {0, 65536}, size : {0, 4096, 8192}]

Blocks == UNION {[1..n -> RsvEntries] : n \in 0..MaxRsv}

fdt_get_mem_rsv(d, n) ==
    IF n \in 0..(Len(d) - 1)
    THEN [ret |-> 0, addr |-> d[n + 1].addr, size |-> d[n + 1].size]
    ELSE [ret |-> -1, addr |-> 0, size |-> 0]

fdt_del_mem_rsv(d, n) == SubSeq(d, 1, n) \o SubSeq(d, n + 2, Len(d))

InitRsv ==
    /\ cfg = AllDisabled
    /\ hw = HwAbsent
    /\ tainted = FALSE
    /\ status = "Idle"
    /\ pc = 0
    /\ log = <<>>
    /\ probed = <<>>
    /\ checked = <<>>
    /\ first = NoPass
    /\ dtb \in Blocks
    /\ dtb_in = dtb
    /\ regions = 0
    /\ rsv_i = 0
    /\ rsv_pc = "Idle"
    /\ warnings = <<>>
    /\ EpOff

\* int regions = fdt_num_mem_rsv(dtb); i = 0
RsvEnter ==
    /\ rsv_pc = "Idle"
    /\ regions' \in -1..(Len(dtb) + 1)
    /\ rsv_i' = 0
    /\ rsv_pc' = "Loop"
    /\ UNCHANGED <<dtb, dtb_in, warnings, fdVars, epVars>>

\* faulty variant: the region at address 0 is removed whatever its size
RsvIter_any_size ==
    /\ rsv_pc = "Loop"
    /\ LET r == fdt_get_mem_rsv(dtb, rsv_i)
           stop == \/ ~(rsv_i < regions)
                   \/ r.ret # 0
                   \/ r.size = 0
           found == ~stop /\ r.addr = 0
           warn == FALSE
       IN  /\ dtb' = IF found THEN fdt_del_mem_rsv(dtb, rsv_i) ELSE dtb
           /\ warnings' = IF warn THEN Append(warnings, r.size) ELSE warnings
           /\ rsv_pc' = IF stop \/ found THEN "Done" ELSE "Loop"
           /\ rsv_i' = IF stop \/ found THEN rsv_i ELSE rsv_i + 1
    /\ UNCHANGED <<dtb_in, regions, fdVars, epVars>>

\* the loop test and one turn of the loop body
RsvIter ==
    /\ rsv_pc = "Loop"
    /\ LET r == fdt_get_mem_rsv(dtb, rsv_i)
           stop == \/ ~(rsv_i < regions)
                   \/ r.ret # 0
                   \/ r.size = 0
           found == ~stop /\ r.addr = 0 /\ r.size = 4096
           warn == ~stop /\ r.addr = 0 /\ r.size # 4096
       IN  /\ dtb' = IF found THEN fdt_del_mem_rsv(dtb, rsv_i) ELSE dtb
           /\ warnings' = IF warn THEN Append(warnings, r.size) ELSE warnings
           /\ rsv_pc' = IF stop \/ found THEN "Done" ELSE "Loop"
           /\ rsv_i' = IF stop \/ found THEN rsv_i ELSE rsv_i + 1
    /\ UNCHANGED <<dtb_in, regions, fdVars, epVars>>

remove_spintable_memreserve ==
    \/ RsvEnter
    \/ RsvIter

NextRsv == remove_spintable_memreserve

SpecRsv == InitRsv /\ [][NextRsv]_vars

(***************************************************************************)
(* The entry point records: bl31_early_platform_setup2() fills them,        *)
(* bl31_plat_get_next_image_ep_info() hands them out.  Of a record the      *)
(* model keeps pc and the security state; the arguments and spsr are not    *)
(* read by these functions.                                                 *)
(***************************************************************************)
rsvVars == <<dtb, dtb_in, regions, rsv_i, rsv_pc, warnings>>

opteeOsEntry == 269484032

\* the stub words and PRELOADED_BL33_BASE take any of these values; 524288
\* is 0x80000
InitEp ==
    /\ cfg = AllDisabled
    /\ hw = HwAbsent
    /\ tainted = FALSE
    /\ status = "Idle"
    /\ pc = 0
    /\ log = <<>>
    /\ probed = <<>>
    /\ checked = <<>>
    /\ first = NoPass
    /\ dtb = <<>>
    /\ dtb_in = <<>>
    /\ regions = 0
    /\ rsv_i = 0
    /\ rsv_pc = "Off"
    /\ warnings = <<>>
    /\ stub_magic \in {0, 1}
    /\ kernel_entry32 \in {0, 524288, 2097152}
    /\ preloaded_bl33 \in {[defined |-> FALSE, base |-> 0],
                           [defined |-> TRUE, base |-> 33554432]}
    /\ bl32_image_ep_info = ZeroEpInfo
    /\ bl33_image_ep_info = ZeroEpInfo
    /\ ep_pc = "Reset"
    /\ ep_rets = <<>>
    /\ ep_warn = <<>>

\* faulty variant: the stub magic is not looked at
plat_get_ns_image_entrypoint_ignores_magic ==
    IF preloaded_bl33.defined
    THEN [ret |-> preloaded_bl33.base, warn |-> <<>>]
    ELSE [ret |-> kernel_entry32, warn |-> <<>>]

\* the value returned and the lines printed
plat_get_ns_image_entrypoint ==
    IF preloaded_bl33.defined
    THEN [ret |-> preloaded_bl33.base, warn |-> <<>>]
    ELSE IF stub_magic = 0
         THEN [ret |-> kernel_entry32, warn |-> <<>>]
         ELSE [ret |-> 524288, warn |-> << "Stub magic failure" >>]

bl31_early_platform_setup2 ==
    /\ ep_pc = "Reset"
    /\ bl32_image_ep_info' = [pc |-> opteeOsEntry, sec |-> SECURE]
    /\ LET e == plat_get_ns_image_entrypoint
       IN  /\ bl33_image_ep_info' = [pc |-> e.ret, sec |-> NON_SECURE]
           /\ ep_warn' = ep_warn \o e.warn
    /\ ep_pc' = "SetUp"
    /\ UNCHANGED <<stub_magic, kernel_entry32, preloaded_bl33, ep_rets,
                   fdVars, rsvVars>>

\* the pointer returned for <type>: the name of the static, or "NULL"
bl31_plat_get_next_image_ep_info(type) ==
    LET next_image_info ==
            IF type = NON_SECURE
            THEN [ptr |-> "bl33_image_ep_info", pc |-> bl33_image_ep_info.pc]
            ELSE [ptr |-> "bl32_image_ep_info", pc |-> bl32_image_ep_info.pc]
    IN  IF next_image_info.pc # 0 THEN next_image_info.ptr ELSE "NULL"

\* a call with a valid security state, as the assert requires
EpQuery ==
    /\ ep_pc \in {"Reset", "SetUp"}
    /\ Len(ep_rets) < MaxQueries
    /\ \E type \in {SECURE, NON_SECURE} :
         ep_rets' = Append(ep_rets,
                           [type |-> type, after |-> ep_pc = "SetUp",
                            ret |-> bl31_plat_get_next_image_ep_info(type)])
    /\ UNCHANGED <<stub_magic, kernel_entry32, preloaded_bl33,
                   bl32_image_ep_info, bl33_image_ep_info, ep_pc, ep_warn,
                   fdVars, rsvVars>>

NextEp ==
    \/ bl31_early_platform_setup2
    \/ EpQuery

SpecEp == InitEp /\ [][NextEp]_vars

(***************************************************************************)
(* Vocabulary of the properties.                                            *)
(***************************************************************************)
\* the build state of a feature; PAUTH is governed by two flags and is
\* Always when either is, else Check when either is, else Disabled
FlagOf == [f \in Features \ {"PAUTH"} |-> CHOOSE fl \in FlagsOf(f) : TRUE]

StateOf(f) ==
    IF f # "PAUTH" THEN cfg[FlagOf[f]]
    ELSE IF \E fl \in FlagsOf(f) : cfg[fl] = FEAT_STATE_ALWAYS THEN FEAT_STATE_ALWAYS
    ELSE IF \E fl \in FlagsOf(f) : cfg[fl] = FEAT_STATE_CHECK THEN FEAT_STATE_CHECK
    ELSE FEAT_STATE_DISABLED

\* what the probe of a boolean feature reports on this hardware
Present(f) ==
    CASE f \in BoolProbed -> hw[f]
      [] f = "MPAM" -> hw[f] # 0
      [] f = "NV2" -> hw[f] = ID_AA64MMFR2_EL1_NV2_SUPPORTED
      [] f = "MTE" -> hw[f] # MTE_UNIMPLEMENTED
      [] f = "ECV" -> hw[f] \in {ID_AA64MMFR0_EL1_ECV_SUPPORTED,
                                 ID_AA64MMFR0_EL1_ECV_SELF_SYNCH}
      [] f = "RME" -> hw[f] # ID_AA64PFR0_FEAT_RME_NOT_SUPPORTED

\* a mandatory boolean feature the hardware lacks
BoolFails(f) == f \in Boolean /\ StateOf(f) = FEAT_STATE_ALWAYS /\ ~Present(f)

\* the two range rules
Below(f) == f \in Versioned /\ StateOf(f) = FEAT_STATE_ALWAYS /\ hw[f] < MinOf(f)

Above(f) ==
    /\ f \in Versioned
    /\ StateOf(f) \in {FEAT_STATE_ALWAYS, FEAT_STATE_CHECK}
    /\ hw[f] > MaxOf(f)

RangeFails(f) == Below(f) \/ Above(f)

\* the call that checks f has been made
WasChecked(f) == \E i \in 1..Len(checked) : checked[i] = f

\* the probe of f has been called
WasProbed(f) == \E i \in 1..Len(probed) : probed[i] = f

\* the diagnostics that name f
DiagsOf(f) == {i \in 1..Len(log) : log[i].feat = f}

\* the pass is stopped at the call that checks f
AbortedAt(f) == status = "Terminated" /\ pc = Pos(f)

\* the pass is stopped by the final test of tainted
AbortedAtEnd == status = "Terminated" /\ pc = NumEntries + 1

\* the call that checks f is the next step
AtCheck(f) == status = "Running" /\ pc = Pos(f)

\* the call just made returned to detect_arch_features() and changed nothing
NoAction == log' = log /\ tainted' = tainted /\ status' = "Running" /\ pc' = pc + 1

(***************************************************************************)
(* C1: detect_arch_features() returns normally only if no boolean feature  *)
(* that is Always is absent and no versioned feature fails a range rule,    *)
(* and it panics only if one does.                                          *)
(***************************************************************************)
C1_ReturnsIffCompatible ==
    LET incompatible == \E f \in Features : BoolFails(f) \/ RangeFails(f)
    IN  /\ status = "Returned" => ~incompatible
        /\ status = "Terminated" => incompatible

\* a pass with a mandatory feature, present in its newest known version,
\* has returned
C1_Witness ==
    /\ status = "Returned"
    /\ \E f \in Versioned :
         StateOf(f) = FEAT_STATE_ALWAYS /\ hw[f] = MaxOf(f) /\ WasProbed(f)

(***************************************************************************)
(* C2: once the check of a boolean feature that is Always and absent has   *)
(* run, the pass is stopped at that check, the last diagnostic names the    *)
(* feature, and nothing later in registry order was checked or probed.      *)
(***************************************************************************)
C2_BooleanAbortIsImmediate ==
    \A f \in Boolean :
        BoolFails(f) /\ WasChecked(f) =>
            /\ AbortedAt(f)
            /\ checked = SubSeq(Registry, 1, Pos(f))
            /\ Len(log) >= 1
            /\ log[Len(log)] = [feat |-> f, kind |-> "not_supported"]
            /\ Cardinality(DiagsOf(f)) = 1
            /\ \A g \in Features :
                 Pos(g) > Pos(f) => ~WasProbed(g) /\ DiagsOf(g) = {}

\* the pass is stopped at an absent boolean feature although a later
\* feature fails its check too
C2_Witness ==
    \E f \in Boolean, g \in Features :
        /\ BoolFails(f)
        /\ AbortedAt(f)
        /\ Pos(g) > Pos(f)
        /\ BoolFails(g) \/ RangeFails(g)

(***************************************************************************)
(* C3 as stated: once the check of a versioned feature that is Always and  *)
(* below its minimum has run, tainted is set, and the pass stops only at    *)
(* the final test, after all checks have run.                               *)
(***************************************************************************)
C3_Original ==
    \A f \in Versioned :
        Below(f) /\ WasChecked(f) =>
            /\ tainted
            /\ status = "Terminated" => AbortedAtEnd /\ Len(checked) = NumEntries

(***************************************************************************)
(* C3 amended: the range check sets tainted and returns; the pass then      *)
(* stops either at the final test, after all checks have run, or at a       *)
(* later boolean feature that is Always and absent; it never returns.       *)
(***************************************************************************)
C3_BelowMinTaintsAndContinues ==
    \A f \in Versioned :
        Below(f) /\ WasChecked(f) =>
            /\ tainted
            /\ [feat |-> f, kind |-> "not_supported"] \in {log[i] : i \in DiagsOf(f)}
            /\ ~AbortedAt(f)
            /\ Len(checked) = Pos(f) => status = "Running" /\ pc = Pos(f) + 1
            /\ status # "Returned"
            /\ status = "Terminated" =>
                 \/ AbortedAtEnd /\ Len(checked) = NumEntries
                 \/ /\ pc \in (Pos(f) + 1)..NumEntries
                    /\ BoolFails(Registry[pc])

\* a pass tainted by a feature below its minimum has run every check and
\* is stopped by the final test
C3_Witness ==
    \E f \in Versioned :
        /\ Below(f)
        /\ AbortedAtEnd
        /\ Len(checked) = NumEntries
        /\ Pos(f) < NumEntries

(***************************************************************************)
(* C4: once the check of a versioned feature that is Always or Check and   *)
(* above its maximum has run, the 'unknown version' diagnostic is in the    *)
(* log and tainted is set; the check itself returns, and the pass does not  *)
(* return normally.                                                         *)
(***************************************************************************)
C4_AboveMaxTaints ==
    \A f \in Versioned :
        Above(f) /\ WasChecked(f) =>
            /\ tainted
            /\ {log[i] : i \in DiagsOf(f)} = {[feat |-> f, kind |-> "unknown_version"]}
            /\ Cardinality(DiagsOf(f)) = 1
            /\ ~AbortedAt(f)
            /\ Len(checked) = Pos(f) => status = "Running" /\ pc = Pos(f) + 1
            /\ status # "Returned"

\* a feature that is only Check, above its maximum, has tainted a pass
\* that went on to the final test
C4_Witness ==
    \E f \in Versioned :
        /\ StateOf(f) = FEAT_STATE_CHECK
        /\ Above(f)
        /\ AbortedAtEnd

(***************************************************************************)
(* C5: the check of a versioned feature whose field is within [min, max],  *)
(* bounds included, prints nothing and leaves tainted as it is, whatever    *)
(* the state of the feature.                                                *)
(***************************************************************************)
C5_InRangeNoEffect ==
    [][\A f \in Versioned :
          AtCheck(f) /\ MinOf(f) <= hw[f] /\ hw[f] <= MaxOf(f) => NoAction]_vars

\* a mandatory feature at its maximum, which is not its minimum, has been
\* checked and nothing was printed
C5_Witness ==
    \E f \in Versioned :
        /\ StateOf(f) = FEAT_STATE_ALWAYS
        /\ hw[f] = MaxOf(f)
        /\ MaxOf(f) > MinOf(f)
        /\ WasChecked(f)
        /\ log = <<>>
        /\ ~tainted

(***************************************************************************)
(* C6: the check of a versioned feature that is Check and below its        *)
(* minimum prints nothing and leaves tainted as it is.                      *)
(***************************************************************************)
C6_CheckBelowMinNoEffect ==
    [][\A f \in Versioned :
          AtCheck(f) /\ StateOf(f) = FEAT_STATE_CHECK /\ hw[f] < MinOf(f)
              => NoAction]_vars

\* a pass with a Check feature the hardware lacks has returned
C6_Witness ==
    \E f \in Versioned :
        /\ StateOf(f) = FEAT_STATE_CHECK
        /\ hw[f] = 0
        /\ WasChecked(f)
        /\ status = "Returned"
        /\ log = <<>>

(***************************************************************************)
(* C7: no diagnostic names a Disabled feature, the pass never stops at the *)
(* check of one, and tainted is set only by a versioned feature that is     *)
(* not Disabled; so a pass that printed, tainted or panicked has a feature  *)
(* that is not Disabled, whatever the hardware reports.                     *)
(***************************************************************************)
C7_DisabledIsInert ==
    /\ \A i \in 1..Len(log) : StateOf(log[i].feat) # FEAT_STATE_DISABLED
    /\ status = "Terminated" /\ pc <= NumEntries =>
         StateOf(Registry[pc]) # FEAT_STATE_DISABLED
    /\ tainted =>
         \E g \in Versioned : StateOf(g) # FEAT_STATE_DISABLED /\ WasChecked(g)
    /\ log # <<>> \/ tainted \/ status = "Terminated" =>
         \E f \in Features : StateOf(f) # FEAT_STATE_DISABLED

\* every feature is Disabled, the hardware reports a version above the
\* maximum of one of them, and the pass has returned
C7_Witness ==
    /\ \A f \in Features : StateOf(f) = FEAT_STATE_DISABLED
    /\ \E f \in Versioned : hw[f] > MaxOf(f)
    /\ status = "Returned"

C9_PresenceCheckNoAction ==
    [][\A f \in Boolean :
          AtCheck(f) /\ (StateOf(f) # FEAT_STATE_ALWAYS \/ Present(f))
              => NoAction]_vars

\* a pass with a boolean feature that is Check and absent has returned
C9_Witness ==
    \E f \in Boolean :
        /\ StateOf(f) = FEAT_STATE_CHECK
        /\ ~Present(f)
        /\ WasChecked(f)
        /\ status = "Returned"

(***************************************************************************)
(* C10 as stated: the pass never stops at the check of AMUv1, TRF, FGT,    *)
(* ECV, TWED, HCX, BRBE or TRBE.                                            *)
(***************************************************************************)
C10_Original ==
    \A f \in {"AMUv1", "TRF", "FGT", "ECV", "TWED", "HCX", "BRBE", "TRBE"} :
        ~AbortedAt(f)

(***************************************************************************)
(* C10 amended: the pass never stops at the check of AMUv1, TRF, FGT, HCX, *)
(* BRBE or TRBE, and a value of theirs that fails a range rule taints the   *)
(* pass; ECV and TWED are boolean features: when one is Always and absent   *)
(* the pass stops at its check, and their checks never set tainted.         *)
(***************************************************************************)
C10_RangeCheckedFeatures ==
    /\ \A f \in {"AMUv1", "TRF", "FGT", "HCX", "BRBE", "TRBE"} :
         /\ ~AbortedAt(f)
         /\ RangeFails(f) /\ WasChecked(f) => tainted /\ status # "Returned"
    /\ \A f \in {"ECV", "TWED"} :
         /\ BoolFails(f) /\ WasChecked(f) => AbortedAt(f)
         /\ Len(checked) = Pos(f) /\ tainted =>
              \E g \in Versioned : Pos(g) < Pos(f) /\ RangeFails(g)

\* ECV is Always, its field is 0, and the pass is stopped at its check
\* with tainted still false
C10_Witness ==
    /\ StateOf("ECV") = FEAT_STATE_ALWAYS
    /\ hw["ECV"] = 0
    /\ AbortedAt("ECV")
    /\ ~tainted

(***************************************************************************)
(* C11: as long as no boolean check has stopped the pass, the log holds    *)
(* exactly one diagnostic for every checked versioned feature that fails a  *)
(* range rule, 'not supported' below the minimum and 'unknown version'      *)
(* above the maximum, each naming its feature, and no other line; so all    *)
(* of them are printed when the final test stops the pass, whatever the     *)
(* registry order of the failing features.                                  *)
(***************************************************************************)
DiagOf(f) ==
    [feat |-> f, kind |-> IF Below(f) THEN "not_supported" ELSE "unknown_version"]

C11_OneDiagnosticPerFailingVersioned ==
    ~(status = "Terminated" /\ pc <= NumEntries) =>
        LET failing == SelectSeq(checked, RangeFails)
        IN  /\ log = [i \in 1..Len(failing) |-> DiagOf(failing[i])]
            /\ status \in {"Returned", "Terminated"} =>
                  Len(log) = Cardinality({f \in Versioned : RangeFails(f)})

\* the final test has stopped a pass with exactly two diagnostics: a feature
\* above its maximum and, later in registry order, one below its minimum
C11_Witness ==
    \E f, g \in Versioned :
        /\ Above(f)
        /\ Below(g)
        /\ Pos(f) < Pos(g)
        /\ AbortedAtEnd
        /\ log = << [feat |-> f, kind |-> "unknown_version"],
                    [feat |-> g, kind |-> "not_supported"] >>

(***************************************************************************)
(* C12: a second pass over the same build configuration and hardware ends  *)
(* as the first one did, returned or terminated, after the same calls and   *)
(* with the same diagnostics in the same order; every pass starts its       *)
(* first check with tainted false, whatever the pass before it left.        *)
(***************************************************************************)
C12_SecondPassIdentical ==
    /\ status = "Running" /\ pc = 1 => ~tainted
    /\ first # NoPass /\ status \in {"Returned", "Terminated"} =>
         /\ status = first.status
         /\ log = first.log
         /\ checked = first.checked

\* both passes ran every check and were stopped by the final test, the
\* second one entered with tainted still set by the first
C12_Witness ==
    /\ first.status = "Terminated"
    /\ Len(first.checked) = NumEntries
    /\ AbortedAtEnd
    /\ log = first.log
    /\ log # <<>>

(***************************************************************************)
(* C13: the calls made so far are a prefix of the registry order, which    *)
(* has every feature once and goes through the architecture versions 8.0,   *)
(* 8.1, 8.2, 8.3, 8.4, 8.5, 8.6, 8.7, 9.0, 9.2 in that order; a pass that   *)
(* returned or was stopped by the final test has made every call, and a     *)
(* pass stopped by a boolean check has made the calls up to that check.     *)
(***************************************************************************)
C13_EveryCheckOnceInOrder ==
    /\ checked = SubSeq(Registry, 1, Len(checked))
    /\ Cardinality({checked[i] : i \in 1..Len(checked)}) = Len(checked)
    /\ \A i \in 1..(Len(checked) - 1) :
         GroupOf[checked[i]] <= GroupOf[checked[i + 1]]
    /\ status = "Returned" \/ AbortedAtEnd =>
         /\ checked = Registry
         /\ {GroupOf[checked[i]] : i \in 1..Len(checked)} = 1..Len(ArchVersions)
         /\ Len(ArchVersions) = 10
    /\ status = "Terminated" /\ pc <= NumEntries =>
         /\ Len(checked) = pc
         /\ BoolFails(Registry[pc])

\* a pass with a feature that is not Disabled has made all the calls, in
\* order, and returned
C13_Witness ==
    /\ status = "Returned"
    /\ checked = Registry
    /\ Len(checked) = Cardinality(Features)
    /\ \E f \in Features : StateOf(f) # FEAT_STATE_DISABLED

(***************************************************************************)
(* C14: whatever the order in which the checks are run, the pass ends as   *)
(* it does in program order: it is terminated in both or it returns in      *)
(* both.                                                                    *)
(***************************************************************************)
C14_VerdictIndependentOfOrder ==
    status \in {"Returned", "Terminated"} =>
        /\ first.checked = SubSeq(Registry, 1, Len(first.checked))
        /\ first.status \in {"Returned", "Terminated"}
        /\ status = first.status

\* a versioned feature below its minimum comes before an absent boolean
\* feature in program order; run the other way round, the pass is stopped
\* at the boolean feature before the versioned one is checked
C14_Witness ==
    \E f \in Versioned, b \in Boolean :
        /\ Below(f)
        /\ BoolFails(b)
        /\ Pos(f) < Pos(b)
        /\ status = "Terminated"
        /\ ~tainted
        /\ log = << [feat |-> b, kind |-> "not_supported"] >>
        /\ Len(first.log) = 2

(***************************************************************************)
(* C15: tainted is false when the first check of a pass runs; a check      *)
(* changes it only from false to true, and only the range check of a        *)
(* versioned feature that fails a range rule does; no boolean check         *)
(* changes it; no check reads it: the outcome of every call is the same     *)
(* whatever its value; the final test, made once all calls are made, reads  *)
(* it and leaves it as it is.                                               *)
(***************************************************************************)
C15_TaintedFrame ==
    [][/\ status = "Idle" => tainted' = FALSE
       /\ status = "Running" /\ pc \in 1..NumEntries =>
            LET f == Registry[pc]
                r == Call(f, Cur)
                q == Call(f, [Cur EXCEPT !.tainted = ~tainted])
            IN  /\ pc = 1 => ~tainted
                /\ f \in Boolean => tainted' = tainted
                /\ tainted => tainted'
                /\ tainted' # tainted => f \in Versioned /\ RangeFails(f)
                /\ q.status = r.status /\ q.log = r.log /\ q.probed = r.probed
       /\ status = "Running" /\ pc = NumEntries + 1 =>
            /\ Len(checked) = NumEntries
            /\ tainted' = tainted
            /\ status' = IF tainted THEN "Terminated" ELSE "Returned"
       /\ status \in {"Returned", "Terminated"} => tainted' = tainted]_vars

\* a second pass, entered with tainted left set by the first, is running
\* with tainted false again, ahead of the range check that will set it
C15_Witness ==
    /\ first.status = "Terminated"
    /\ status = "Running"
    /\ pc > 1
    /\ ~tainted
    /\ \E f \in Versioned : RangeFails(f) /\ pc <= Pos(f)
    /\ \A b \in Boolean : ~BoolFails(b)

(***************************************************************************)
(* C16: no step of the pass starts in Terminated: after a panic, at a       *)
(* boolean check or at the final test, no probe is called, nothing is       *)
(* printed, tainted keeps its value and the status stays Terminated.        *)
(***************************************************************************)
C16_TerminatedIsAbsorbing ==
    [][status # "Terminated"]_vars

\* a boolean check has stopped the pass with calls still to be made
C16_Witness ==
    \E f \in Boolean :
        /\ AbortedAt(f)
        /\ Pos(f) < NumEntries
        /\ Len(checked) = Pos(f)
        /\ Len(probed) >= 1
        /\ probed[Len(probed)] = f

(***************************************************************************)
(* C17: every pass comes to an end and stays there: from some moment on     *)
(* it has returned or it is Terminated, for every build configuration and   *)
(* all hardware values; it does not stay Running.                           *)
(***************************************************************************)
C17_EveryPassEnds ==
    <>[](status = "Returned" \/ status = "Terminated")

\* a pass with a mandatory boolean feature the hardware has went through
\* its probe and all the calls, and returned
C17_Witness ==
    /\ status = "Returned"
    /\ Len(checked) = NumEntries
    /\ pc = NumEntries + 1
    /\ \E f \in Boolean :
         StateOf(f) = FEAT_STATE_ALWAYS /\ Present(f) /\ WasProbed(f)

(***************************************************************************)
(* C18: the check of a boolean feature that is Always and absent stops the *)
(* pass at that check also when tainted is set already; the log is then     *)
(* the diagnostics of the versioned features that fail a range rule before  *)
(* it in registry order, followed by the one that names the boolean         *)
(* feature, and a versioned feature after it is neither checked nor named,  *)
(* out of range or not.                                                     *)
(***************************************************************************)
C18_BooleanAbortAfterTaint ==
    /\ \A b \in Boolean : BoolFails(b) /\ WasChecked(b) => AbortedAt(b)
    /\ status = "Terminated" /\ tainted /\ pc <= NumEntries =>
         LET b == Registry[pc]
             early == SelectSeq(SubSeq(Registry, 1, pc - 1), RangeFails)
         IN  /\ BoolFails(b)
             /\ Len(early) >= 1
             /\ log = [i \in 1..(Len(early) + 1) |->
                         IF i <= Len(early)
                         THEN DiagOf(early[i])
                         ELSE [feat |-> b, kind |-> "not_supported"]]
             /\ \A g \in Versioned :
                  Pos(g) > pc => DiagsOf(g) = {} /\ ~WasChecked(g)

\* a boolean check stopped a pass tainted by an earlier range check, ahead
\* of a versioned feature that fails a range rule too
C18_Witness ==
    \E f \in Versioned, g \in Versioned, b \in Boolean :
        /\ Pos(f) < Pos(b)
        /\ Pos(b) < Pos(g)
        /\ RangeFails(f)
        /\ RangeFails(g)
        /\ AbortedAt(b)
        /\ tainted
        /\ log = << DiagOf(f), [feat |-> b, kind |-> "not_supported"] >>

(***************************************************************************)
(* C19: the check of PAUTH stops the pass, with the diagnostic that names   *)
(* PAUTH, exactly when the hardware lacks PAUTH and ENABLE_PAUTH or          *)
(* CTX_INCLUDE_PAUTH_REGS is Always, whatever the other flag is; otherwise   *)
(* the check prints nothing, leaves tainted as it is and returns, and with   *)
(* neither flag Always the probe is not even called.                         *)
(***************************************************************************)
C19_PauthTwoFlags ==
    [][AtCheck("PAUTH") =>
         LET mandatory == \/ cfg["ENABLE_PAUTH"] = FEAT_STATE_ALWAYS
                          \/ cfg["CTX_INCLUDE_PAUTH_REGS"] = FEAT_STATE_ALWAYS
         IN  /\ mandatory /\ ~hw["PAUTH"] =>
                  /\ status' = "Terminated"
                  /\ pc' = pc
                  /\ log' = Append(log, [feat |-> "PAUTH", kind |-> "not_supported"])
                  /\ tainted' = tainted
             /\ ~(mandatory /\ ~hw["PAUTH"]) => NoAction
             /\ ~mandatory => probed' = probed]_vars

\* the pass is stopped at PAUTH with ENABLE_PAUTH Disabled: it is
\* CTX_INCLUDE_PAUTH_REGS that makes the feature mandatory
C19_Witness ==
    /\ cfg["ENABLE_PAUTH"] = FEAT_STATE_DISABLED
    /\ cfg["CTX_INCLUDE_PAUTH_REGS"] = FEAT_STATE_ALWAYS
    /\ ~hw["PAUTH"]
    /\ AbortedAt("PAUTH")
    /\ log = << [feat |-> "PAUTH", kind |-> "not_supported"] >>

(***************************************************************************)
(* C20: remove_spintable_memreserve() removes at most one entry of the     *)
(* /memreserve/ block, and only one at address 0 of size 4096; the entries  *)
(* it went past all have a size other than 0, and none of them is at        *)
(* address 0 with size 4096; those at another address were skipped, those   *)
(* at address 0 were kept with a warning that tells their size; when it is  *)
(* done without removing anything it has stopped at an entry that cannot    *)
(* be read or has size 0, or at the count of regions; every other entry is  *)
(* as it was.                                                               *)
(***************************************************************************)
C20_RemovesOnlySpintableRegion ==
    LET past == SubSeq(dtb_in, 1, rsv_i)
        kept == SelectSeq(past, LAMBDA e : e.addr = 0)
    IN  /\ rsv_i \in 0..Len(dtb_in)
        /\ \A j \in 1..rsv_i :
             /\ dtb_in[j].size # 0
             /\ ~(dtb_in[j].addr = 0 /\ dtb_in[j].size = 4096)
        /\ warnings = [j \in 1..Len(kept) |-> kept[j].size]
        /\ \/ dtb = dtb_in
           \/ /\ rsv_pc = "Done"
              /\ rsv_i < Len(dtb_in)
              /\ rsv_i < regions
              /\ dtb_in[rsv_i + 1] = [addr |-> 0, size |-> 4096]
              /\ Len(dtb) = Len(dtb_in) - 1
              /\ \A j \in 1..Len(dtb) :
                   dtb[j] = IF j <= rsv_i THEN dtb_in[j] ELSE dtb_in[j + 1]
        /\ rsv_pc = "Done" /\ dtb = dtb_in =>
             \/ rsv_i >= regions
             \/ rsv_i >= Len(dtb_in)
             \/ dtb_in[rsv_i + 1].size = 0

\* the scan skipped an entry at another address, kept an entry at address
\* 0 of another size with a warning, and removed the 4K entry at address 0
\* that came third
C20_Witness ==
    /\ rsv_pc = "Done"
    /\ Len(dtb_in) = 3
    /\ dtb_in[1].addr # 0
    /\ dtb_in[2] = [addr |-> 0, size |-> 8192]
    /\ dtb_in[3] = [addr |-> 0, size |-> 4096]
    /\ dtb = SubSeq(dtb_in, 1, 2)
    /\ warnings = << 8192 >>

====
